---- MODULE Spec2Model ----
(***************************************************************************)
(* Model of libswiftnav/track.c: the correlator engine (track_correlate),  *)
(* the navigation measurement engine (calc_navigation_measurement_) and    *)
(* the loop filter designer (calc_loop_gains).                             *)
(*                                                                         *)
(* The C code computes in IEEE doubles.                                    *)
(*   code phase, code step   doubles, bit for bit: sign and magnitude in   *)
(*                           units of 2^-46 chip, every sum rounded to 53  *)
(*                           bits, to nearest, ties to even                *)
(*   carrier phase, step     quarter turns (pi/2), where sin and cos are   *)
(*                           taken as exactly -1, 0 or 1                   *)
(*   time                    ticks of 0.5 microsecond, fixed point         *)
(*   range                   micrometres, fixed point                      *)
(*   range rate              0.1 mm/s, fixed point                         *)
(*   loop gains              exact rationals                               *)
(***************************************************************************)
EXTENDS Integers, Sequences, FiniteSets, TLC

VARIABLES
  \* ---- track_correlate: the caller's state and arguments
  init_code_phase,   \* *init_code_phase
  init_carr_phase,   \* *init_carr_phase
  code_step, carr_step,
  replica,           \* which code replica code[0..1022] holds
  guard,             \* memory next to the replica, by parity of the index
  sample_kind,       \* which sample buffer samples[] holds
  \* ---- track_correlate: locals and outputs
  pc, code_phase, carr_phase, carr_sin, carr_cos, sin_delta, cos_delta,
  I_E, Q_E, I_P, Q_P, I_L, Q_L, num_samples, i,
  \* ---- track_correlate: history
  idx,               \* the early, prompt and late indices last read
  read,              \* the indices of samples[] read by the current call
  oob_P,             \* prompt reads of the current call outside the replica
  stray_P,           \* the sum of what those reads returned
  calls,             \* calls completed
  start_code_phase, start_carr_phase, first_code_phase,
  \* ---- calc_navigation_measurement_
  n_channels, meas, nav_time, NOMINAL_RANGE,
  npc, ni, TOTs, mean_TOT, nav_meas, clock_err, clock_rate_err,
  sat_calls,         \* the invocations of calc_sat_pos, in order
  pre_range,         \* each channel's pseudorange as assigned at line 182
  tot_done,          \* the channels whose TOTs[] entry has been computed
  mean_done,         \* line 177 has run
  range_done,        \* the channels whose pseudorange has been written
  \* ---- calc_loop_gains
  gpc, bw, zeta, k, sample_freq, pgain, igain

corrVars == <<init_code_phase, init_carr_phase, code_step, carr_step, replica,
              guard, sample_kind, pc, code_phase, carr_phase, carr_sin,
              carr_cos, sin_delta, cos_delta, I_E, Q_E, I_P, Q_P, I_L, Q_L,
              num_samples, i, idx, read, oob_P, stray_P, calls,
              start_code_phase,
              start_carr_phase, first_code_phase>>

navVars == <<n_channels, meas, nav_time, NOMINAL_RANGE, npc, ni, TOTs,
             mean_TOT, nav_meas, clock_err, clock_rate_err, sat_calls,
             pre_range, tot_done, mean_done, range_done>>

gainVars == <<gpc, bw, zeta, k, sample_freq, pgain, igain>>

vars == <<corrVars, navVars, gainVars>>

(***************************************************************************)
(* Doubles of the code phase path.  A double x is [s, hi, lo]: its sign    *)
(* and its magnitude |x| = (hi * 2^29 + lo) * 2^-46.  Every input of the   *)
(* model is a multiple of 2^-46 below 2^12, and so is every sum of two.    *)
(***************************************************************************)

Limb == 2 ^ 29

Zero == [s |-> 1, hi |-> 0, lo |-> 0]

IsZero(x) == x.hi = 0 /\ x.lo = 0

MagLess(x, y) == x.hi < y.hi \/ (x.hi = y.hi /\ x.lo < y.lo)

MagAdd(x, y) ==
  [s |-> 1, hi |-> x.hi + y.hi + (x.lo + y.lo) \div Limb,
   lo |-> (x.lo + y.lo) % Limb]

\* |x| - |y| for |x| >= |y|.
MagSub(x, y) ==
  IF x.lo >= y.lo
  THEN [s |-> 1, hi |-> x.hi - y.hi, lo |-> x.lo - y.lo]
  ELSE [s |-> 1, hi |-> x.hi - y.hi - 1, lo |-> x.lo + Limb - y.lo]

WithSign(sg, m) == [s |-> IF IsZero(m) THEN 1 ELSE sg, hi |-> m.hi, lo |-> m.lo]

Neg(x) == WithSign(-x.s, x)

\* x + y, exactly.
ExactAdd(x, y) ==
  IF x.s = y.s THEN WithSign(x.s, MagAdd(x, y))
  ELSE IF MagLess(x, y) THEN WithSign(y.s, MagSub(y, x))
  ELSE WithSign(x.s, MagSub(x, y))

\* The bits of the magnitude beyond 53: those of hi beyond 24.
RECURSIVE BitsOver(_)
BitsOver(h) == IF h < 2 ^ 24 THEN 0 ELSE 1 + BitsOver(h \div 2)

\* Rounding to a 53-bit significand, to nearest, ties to even.
Round53(x) ==
  LET q == 2 ^ BitsOver(x.hi)
      r == x.lo % q
      up == 2 * r > q \/ (2 * r = q /\ (x.lo \div q) % 2 = 1)
      lo2 == IF up THEN x.lo - r + q ELSE x.lo - r
  IN IF lo2 = Limb THEN [s |-> x.s, hi |-> x.hi + 1, lo |-> 0]
     ELSE [s |-> x.s, hi |-> x.hi, lo |-> lo2]

\* The double operations x + y and x - y.
FAdd(x, y) == Round53(ExactAdd(x, y))

FSub(x, y) == FAdd(x, Neg(y))

FLess(x, y) ==
  IF x.s # y.s THEN x.s < y.s
  ELSE IF x.s = 1 THEN MagLess(x, y) ELSE MagLess(y, x)

\* (int)ceil(x).
CeilInt(x) ==
  LET whole == x.hi \div 2 ^ 17
      frac == x.hi % 2 ^ 17 # 0 \/ x.lo # 0
  IN IF x.s = -1 THEN -whole ELSE IF frac THEN whole + 1 ELSE whole

\* n * |y|, exactly, for 0 <= n < 2^12.  The low limb is multiplied in two
\* parts so that no product passes 2^31.
Times(n, y) ==
  LET a == y.lo \div 2 ^ 15
      b == y.lo % 2 ^ 15
      t == n * a + (n * b) \div 2 ^ 15
  IN [s |-> 1, hi |-> n * y.hi + t \div 2 ^ 14,
      lo |-> (t % 2 ^ 14) * 2 ^ 15 + ((n * b) % 2 ^ 15)]

\* <<n, r>> with |x| = n * |y| + |r| and |r| < |y|, for |y| >= 2^-17 and
\* |x| / |y| < 2^11: the quotient of the high limbs is within one of n.
DivMod(x, y) ==
  LET e == x.hi \div y.hi
      n == IF ~MagLess(x, Times(e + 1, y)) THEN e + 1
           ELSE IF ~MagLess(x, Times(e, y)) THEN e ELSE e - 1
  IN <<n, MagSub(x, Times(n, y))>>

RECURSIVE FloorLog2(_)
FloorLog2(n) == IF n < 2 THEN 0 ELSE 1 + FloorLog2(n \div 2)

\* Half the gap between the whole number n >= 1 and the next double, as a
\* multiple of y: a quotient x / y = n + r / y rounds to n when
\* r <= HalfGap(n, y).
HalfGap(n, y) == IF n = 0 THEN 0 ELSE y.hi \div 2 ^ (24 - FloorLog2(n))

\* (int)ceil(x / y) for y > 0 and x / y > -1: the double quotient, rounded to
\* nearest, and its ceiling.  (A quotient of -1 or less would wrap in the
\* conversion to u32; no input of the model reaches one.)
CeilQuot(x, y) ==
  CASE IsZero(x) -> 0
    [] x.s = -1 /\ MagLess(x, y) -> 0
    [] x.s = 1 ->
         LET d == DivMod(x, y)
         IN IF d[1] = 0 THEN 1
            ELSE IF d[2].hi = 0 /\ d[2].lo <= HalfGap(d[1], y) THEN d[1]
            ELSE d[1] + 1

FloorQuot(x, y) ==
  CASE IsZero(x) -> 0
    [] x.s = -1 /\ MagLess(x, y) -> 0
    [] x.s = 1 -> DivMod(x, y)[1]

\* n quarter chips, as a double.
Quarters(n) == [s |-> 1, hi |-> n * 2 ^ 15, lo |-> 0]

(***************************************************************************)
(* track_correlate                                                         *)
(***************************************************************************)

\* track_correlate calls in a run.
MaxCalls == 2

\* The 1023 of lines 220 and 249: one C/A code period, in chips.
CodeLength == 1023

\* 2*M_PI of line 250, in quarter turns.
TwoPi == 4

Period == Quarters(4 * CodeLength)

Half == Quarters(2)

\* sin() and cos() of lines 210-213 at a whole number of quarter turns.
Sin(q) == CASE q % TwoPi = 0 -> 0
            [] q % TwoPi = 1 -> 1
            [] q % TwoPi = 2 -> 0
            [] OTHER -> -1

Cos(q) == Sin(q + 1)

\* fmod(x, y) of line 250 for y > 0: the remainder has the sign of x.
Fmod(x, y) == IF x >= 0 THEN x % y ELSE -((-x) % y)

\* Line 220: (int)ceil((1023.0 - code_phase) / code_step).
NumSamplesFloor(cp, step) == FloorQuot(FSub(Period, cp), step)

NumSamples(cp, step) == CeilQuot(FSub(Period, cp), step)

\* Lines 226-228: (int)ceil(code_phase - 0.5), (int)ceil(code_phase),
\* (int)ceil(code_phase + 0.5).
IndexE(cp) == CeilInt(FSub(cp, Half))

IndexP(cp) == CeilInt(cp)

IndexLWide(cp) == CeilInt(FAdd(cp, Quarters(6)))

IndexL(cp) == CeilInt(FAdd(cp, Half))

InReplica(j) == j >= 0 /\ j < CodeLength

\* code[j], lines 226-228.  Inside the replica it is the chip; outside, the
\* read is out of bounds and yields whatever memory lies there.
Chip(j) == IF replica = "ones" THEN 1 ELSE IF j % 2 = 0 THEN 1 ELSE -1

ReadCode(j) == IF InReplica(j) THEN Chip(j) ELSE guard[j % 2]

\* samples[j], lines 230-231.
ReadSample(j) == IF sample_kind = "ones" THEN 1 ELSE IF j % 2 = 0 THEN 1 ELSE -1

\* Line 235: the first-order correction of the replica's magnitude.
RenormNoHalf(sn, cs) == 3 - sn * sn - cs * cs

Renorm(sn, cs) == (3 - sn * sn - cs * cs) \div 2

\* Line 249: the code phase handed back.
WrapCodeShort(cp) == FSub(cp, Quarters(4 * (CodeLength - 1)))

WrapCode(cp) == FSub(cp, Period)

\* Line 250: the carrier phase handed back.
WrapCarr(ph) == Fmod(ph, TwoPi)

\* 0, 0.25, 1022 and 1022.75 chips.
InitCodePhases ==
  {Zero, Quarters(1), Quarters(4 * (CodeLength - 1)), Quarters(4 * CodeLength - 1)}

\* The doubles 1023.0/7 and 102.3, and 25.75, 341.25, 1023 and 2047 chips.
CodeSteps ==
  {[s |-> 1, hi |-> 19155236, lo |-> 306783378],
   [s |-> 1, hi |-> 13408665, lo |-> 322122547],
   Quarters(103), Quarters(1365), Quarters(4 * CodeLength),
   Quarters(8 * CodeLength + 4)}

InitCarrPhases == {-1, 0, 1}

CarrSteps == {-1, 0, 1}

CorrIdle ==
  /\ pc = "idle" /\ code_phase = Zero /\ carr_phase = 0
  /\ carr_sin = 0 /\ carr_cos = 0 /\ sin_delta = 0 /\ cos_delta = 0
  /\ I_E = 0 /\ Q_E = 0 /\ I_P = 0 /\ Q_P = 0 /\ I_L = 0 /\ Q_L = 0
  /\ num_samples = 0 /\ i = 0
  /\ idx = [E |-> 0, P |-> 0, L |-> 0]
  /\ read = <<>> /\ oob_P = 0 /\ stray_P = 0 /\ calls = 0
  /\ start_code_phase = Zero /\ start_carr_phase = 0

CorrInit ==
  /\ init_code_phase \in InitCodePhases
  /\ init_carr_phase \in InitCarrPhases
  /\ code_step \in CodeSteps
  /\ carr_step \in CarrSteps
  /\ replica \in {"ones", "alt"}
  /\ guard \in [{0, 1} -> {-1, 1}]
  /\ sample_kind \in {"ones", "alt"}
  /\ first_code_phase = init_code_phase
  /\ CorrIdle

CorrOff ==
  /\ init_code_phase = Zero /\ init_carr_phase = 0
  /\ code_step = Quarters(4) /\ carr_step = 0
  /\ replica = "ones" /\ guard = [p \in {0, 1} |-> 1] /\ sample_kind = "ones"
  /\ first_code_phase = Zero
  /\ CorrIdle

\* Lines 207-220: load the phases, clear the sums, size the loop.
Enter ==
  /\ pc = "idle"
  /\ calls < MaxCalls
  /\ code_phase' = init_code_phase
  /\ carr_phase' = init_carr_phase
  /\ carr_sin' = Sin(init_carr_phase)
  /\ carr_cos' = Cos(init_carr_phase)
  /\ sin_delta' = Sin(carr_step)
  /\ cos_delta' = Cos(carr_step)
  /\ I_E' = 0 /\ Q_E' = 0 /\ I_P' = 0 /\ Q_P' = 0 /\ I_L' = 0 /\ Q_L' = 0
  /\ num_samples' = NumSamples(init_code_phase, code_step)
  /\ i' = 0
  /\ read' = <<>>
  /\ oob_P' = 0
  /\ stray_P' = 0
  /\ start_code_phase' = init_code_phase
  /\ start_carr_phase' = init_carr_phase
  /\ pc' = "loop"
  /\ UNCHANGED <<init_code_phase, init_carr_phase, code_step, carr_step,
                 replica, guard, sample_kind, idx, calls, first_code_phase>>
  /\ UNCHANGED <<navVars, gainVars>>

\* Lines 222-248: one pass of the per-sample loop.
Sample ==
  /\ pc = "loop"
  /\ i < num_samples
  /\ LET e == IndexE(code_phase)
         p == IndexP(code_phase)
         l == IndexL(code_phase)
         code_E == ReadCode(e)
         code_P == ReadCode(p)
         code_L == ReadCode(l)
         baseband_Q == carr_cos * ReadSample(i)
         baseband_I == carr_sin * ReadSample(i)
         carr_sin_ == carr_sin * cos_delta + carr_cos * sin_delta
         carr_cos_ == carr_cos * cos_delta - carr_sin * sin_delta
         i_mag == Renorm(carr_sin_, carr_cos_)
     IN /\ idx' = [E |-> e, P |-> p, L |-> l]
        /\ read' = Append(read, i)
        /\ oob_P' = IF InReplica(p) THEN oob_P ELSE oob_P + 1
        /\ stray_P' = IF InReplica(p) THEN stray_P ELSE stray_P + code_P
        /\ carr_sin' = carr_sin_ * i_mag
        /\ carr_cos' = carr_cos_ * i_mag
        /\ I_E' = I_E + code_E * baseband_I
        /\ Q_E' = Q_E + code_E * baseband_Q
        /\ I_P' = I_P + code_P * baseband_I
        /\ Q_P' = Q_P + code_P * baseband_Q
        /\ I_L' = I_L + code_L * baseband_I
        /\ Q_L' = Q_L + code_L * baseband_Q
  /\ code_phase' = FAdd(code_phase, code_step)
  /\ carr_phase' = carr_phase + carr_step
  /\ i' = i + 1
  /\ UNCHANGED <<init_code_phase, init_carr_phase, code_step, carr_step,
                 replica, guard, sample_kind, pc, sin_delta, cos_delta,
                 num_samples, calls, start_code_phase, start_carr_phase,
                 first_code_phase>>
  /\ UNCHANGED <<navVars, gainVars>>

\* Lines 249-250: the loop is over; hand the phases back.
Exit ==
  /\ pc = "loop"
  /\ ~(i < num_samples)
  /\ init_code_phase' = WrapCode(code_phase)
  /\ init_carr_phase' = WrapCarr(carr_phase)
  /\ calls' = calls + 1
  /\ pc' = "idle"
  /\ UNCHANGED <<code_step, carr_step, replica, guard, sample_kind,
                 code_phase, carr_phase, carr_sin, carr_cos, sin_delta,
                 cos_delta, I_E, Q_E, I_P, Q_P, I_L, Q_L, num_samples, i, idx,
                 read, oob_P, stray_P, start_code_phase, start_carr_phase,
                 first_code_phase>>
  /\ UNCHANGED <<navVars, gainVars>>

\* A call has returned and its outputs stand.
Returned == pc = "idle" /\ calls > 0

CorrNext == Enter \/ Sample \/ Exit

(***************************************************************************)
(* calc_navigation_measurement_                                            *)
(***************************************************************************)

\* Channels in a navigation epoch.
MaxChannels == 3

\* 1e-3 of line 168: one millisecond, in ticks.
TicksPerMs == 2000

\* 1.023e6 of lines 169-170, in thousands of chips per second; the code
\* phase is held in thousandths of a chip, the code phase rate in thousands
\* of chips per second.
ChipRate == 1023

\* NAV_C, 299792458 m/s, in micrometres per tick.
NAV_C == 149896229

\* GPS_L1_HZ, 1.57542e9 Hz, scaled so that NAV_C * f / GPS_L1_HZ is in 0.1 mm/s
\* for f in Hz.
GPS_L1_HZ == 78771

Channels == 0 .. (n_channels - 1)

\* ephemerides[]: entry ch is the ephemeris of the satellite on channel ch.
ephemerides == [ch \in 0 .. MaxChannels |-> 2 * ch + 3]

NavTimes == {140010}

Measurements(nt) ==
  { [time_of_week_ms |-> 70, code_phase_chips |-> m[1],
     receiver_time |-> nt - m[2], code_phase_rate |-> ChipRate,
     carrier_freq |-> m[3]] :
    m \in {<<0, 0, 2>>, <<1023, 0, -3>>, <<0, 2, -3>>, <<1023, 2, 2>>} }

NominalRanges == {0, 22980}

\* What calc_sat_pos may hand back in *clock_err and *clock_rate_err.
ClockErrs == {-1, 1}

ClockRateErrs == {0, 1}

\* Lines 168-170: the time of transmission of one channel.
TimeOfTransmission(m, nt) ==
  m.time_of_week_ms * TicksPerMs
  + (m.code_phase_chips * TicksPerMs) \div (ChipRate * 1000)
  + ((nt - m.receiver_time) * m.code_phase_rate) \div ChipRate

\* Line 174.
InitialRate(m) == (NAV_C * (-m.carrier_freq)) \div GPS_L1_HZ

\* Line 167: the condition of the first loop.
Loop1CondShort == ni < n_channels - 1

Loop1Cond == ni < n_channels

\* Line 177.
MeanOfFirst(sum, n) == TOTs[0]

MeanOf(sum, n) == sum \div n

\* Line 182: the pseudorange before the satellite clock correction.
InitialRangeStale(ch) ==
  (mean_TOT - TOTs[ch]) * NAV_C + NOMINAL_RANGE + clock_err * NAV_C

InitialRange(ch) == (mean_TOT - TOTs[ch]) * NAV_C + NOMINAL_RANGE

\* Line 184: the ephemeris and the time handed to calc_sat_pos.
SatPosEphemeris(ch) == ephemerides[ch]

SatPosTimeMean(ch) == mean_TOT

SatPosTime(ch) == TOTs[ch]

NavIdle ==
  /\ npc = "tot" /\ ni = 0
  /\ TOTs = [ch \in Channels |-> 0]
  /\ mean_TOT = 0
  /\ nav_meas = [ch \in Channels |->
                   [TOT |-> 0, pseudorange |-> 0, pseudorange_rate |-> 0,
                    sat_pos |-> <<>>, sat_vel |-> <<>>]]
  /\ clock_err = 0 /\ clock_rate_err = 0
  /\ sat_calls = <<>>
  /\ pre_range = [ch \in Channels |-> 0]
  /\ tot_done = {} /\ mean_done = FALSE /\ range_done = {}

NavInit ==
  /\ n_channels \in 1 .. MaxChannels
  /\ nav_time \in NavTimes
  /\ meas \in [Channels -> Measurements(nav_time)]
  /\ NOMINAL_RANGE \in NominalRanges
  /\ NavIdle

NavOff ==
  /\ n_channels = 1
  /\ nav_time = 0
  /\ meas = [ch \in Channels |->
               [time_of_week_ms |-> 0, code_phase_chips |-> 0,
                receiver_time |-> 0, code_phase_rate |-> ChipRate,
                carrier_freq |-> 0]]
  /\ NOMINAL_RANGE = 0
  /\ NavIdle

\* Lines 167-175: one pass of the first loop.
TotStep ==
  /\ npc = "tot"
  /\ Loop1Cond
  /\ LET t == TimeOfTransmission(meas[ni], nav_time)
     IN /\ TOTs' = [TOTs EXCEPT ![ni] = t]
        /\ mean_TOT' = mean_TOT + t
        /\ nav_meas' = [nav_meas EXCEPT ![ni].TOT = t,
                          ![ni].pseudorange_rate = InitialRate(meas[ni])]
  /\ tot_done' = tot_done \cup {ni}
  /\ ni' = ni + 1
  /\ UNCHANGED <<n_channels, meas, nav_time, NOMINAL_RANGE, npc, clock_err,
                 clock_rate_err, sat_calls, pre_range, mean_done, range_done>>
  /\ UNCHANGED <<corrVars, gainVars>>

\* Line 177: the first loop is over; form the mean.
Mean ==
  /\ npc = "tot"
  /\ ~Loop1Cond
  /\ mean_TOT' = MeanOf(mean_TOT, n_channels)
  /\ mean_done' = TRUE
  /\ ni' = 0
  /\ npc' = "range"
  /\ UNCHANGED <<n_channels, meas, nav_time, NOMINAL_RANGE, TOTs, nav_meas,
                 clock_err, clock_rate_err, sat_calls, pre_range, tot_done,
                 range_done>>
  /\ UNCHANGED <<corrVars, gainVars>>

\* Lines 181-188: one pass of the second loop.  calc_sat_pos is external: it
\* writes the position and velocity of the satellite of the ephemeris at the
\* time it is given, and some clock error and clock rate error.
RangeStep ==
  /\ npc = "range"
  /\ ni < n_channels
  /\ \E ce \in ClockErrs, cre \in ClockRateErrs :
       LET eph == SatPosEphemeris(ni)
           t == SatPosTime(ni)
           r == InitialRange(ni)
       IN /\ pre_range' = [pre_range EXCEPT ![ni] = r]
          /\ clock_err' = ce
          /\ clock_rate_err' = cre
          /\ sat_calls' = Append(sat_calls,
                                 [ephemeris |-> eph, t |-> t, out |-> ni,
                                  clock_err |-> ce, clock_rate_err |-> cre])
          /\ nav_meas' = [nav_meas EXCEPT
                            ![ni].pseudorange = r + ce * NAV_C,
                            ![ni].sat_pos = <<"pos", eph, t>>,
                            ![ni].sat_vel = <<"vel", eph, t>>,
                            ![ni].pseudorange_rate = @ - cre * NAV_C]
  /\ range_done' = range_done \cup {ni}
  /\ ni' = ni + 1
  /\ UNCHANGED <<n_channels, meas, nav_time, NOMINAL_RANGE, npc, TOTs,
                 mean_TOT, tot_done, mean_done>>
  /\ UNCHANGED <<corrVars, gainVars>>

\* Line 189: the second loop is over.
NavReturn ==
  /\ npc = "range"
  /\ ~(ni < n_channels)
  /\ npc' = "done"
  /\ UNCHANGED <<n_channels, meas, nav_time, NOMINAL_RANGE, ni, TOTs,
                 mean_TOT, nav_meas, clock_err, clock_rate_err, sat_calls,
                 pre_range, tot_done, mean_done, range_done>>
  /\ UNCHANGED <<corrVars, gainVars>>

NavNext == TotStep \/ Mean \/ RangeStep \/ NavReturn

(***************************************************************************)
(* calc_loop_gains                                                         *)
(***************************************************************************)

\* Exact rationals <<numerator, denominator>>, denominator > 0, in lowest
\* terms: the doubles of calc_loop_gains without their rounding.
Abs(x) == IF x < 0 THEN -x ELSE x

RECURSIVE Gcd(_, _)
Gcd(a, b) == IF b = 0 THEN a ELSE Gcd(b, a % b)

Rat(n, d) ==
  LET g == Gcd(Abs(n), Abs(d))
      sg == IF d < 0 THEN -1 ELSE 1
  IN <<sg * (n \div g), sg * (d \div g)>>

RInt(n) == <<n, 1>>

RMul(x, y) ==
  LET g1 == Gcd(Abs(x[1]), y[2])
      g2 == Gcd(Abs(y[1]), x[2])
  IN Rat((x[1] \div g1) * (y[1] \div g2), (x[2] \div g2) * (y[2] \div g1))

RDiv(x, y) == RMul(x, IF y[1] < 0 THEN <<-y[2], -y[1]>> ELSE <<y[2], y[1]>>)

RAdd(x, y) ==
  LET g == Gcd(x[2], y[2])
  IN Rat(x[1] * (y[2] \div g) + y[1] * (x[2] \div g), x[2] * (y[2] \div g))

RPos(x) == x[1] > 0

RNeg(x) == x[1] < 0

\* Line 110: the natural frequency.
OmegaN(b, z) ==
  RDiv(RMul(RMul(b, RInt(8)), z),
       RAdd(RMul(RMul(RInt(4), z), z), RInt(1)))

\* Line 113.
SamplePeriod(fs) == RDiv(RInt(1), fs)

\* Line 114.
DenominatorNoGain(b, z, kk, fs) ==
  LET w == OmegaN(b, z)
      T == SamplePeriod(fs)
  IN RAdd(RAdd(RInt(4), RMul(RMul(RMul(RInt(4), z), w), T)),
          RMul(RMul(RMul(w, w), T), T))

Denominator(b, z, kk, fs) ==
  LET w == OmegaN(b, z)
      T == SamplePeriod(fs)
  IN RMul(kk, RAdd(RAdd(RInt(4), RMul(RMul(RMul(RInt(4), z), w), T)),
                   RMul(RMul(RMul(w, w), T), T)))

\* Line 116.
PGain(b, z, kk, fs) ==
  RDiv(RMul(RMul(RMul(RInt(8), z), OmegaN(b, z)), SamplePeriod(fs)),
       Denominator(b, z, kk, fs))

\* Line 117.
IGain(b, z, kk, fs) ==
  RDiv(RMul(RMul(RMul(RMul(RInt(4), OmegaN(b, z)), OmegaN(b, z)),
                 SamplePeriod(fs)), SamplePeriod(fs)),
       Denominator(b, z, kk, fs))

Bandwidths == {RInt(1), RInt(10), RInt(25)}

Dampings == {<<1, 2>>, <<7, 10>>, RInt(1)}

LoopGains == {RInt(-2), <<-1, 2>>, RInt(1), RInt(3)}

SampleFreqs == {RInt(1), RInt(50), RInt(1000)}

GainInit ==
  /\ gpc = "call"
  /\ bw \in Bandwidths
  /\ zeta \in Dampings
  /\ k \in LoopGains
  /\ sample_freq \in SampleFreqs
  /\ pgain = RInt(0)
  /\ igain = RInt(0)

GainOff ==
  /\ gpc = "call" /\ bw = RInt(1) /\ zeta = RInt(1) /\ k = RInt(1)
  /\ sample_freq = RInt(1) /\ pgain = RInt(0) /\ igain = RInt(0)

\* Lines 107-118.
calc_loop_gains ==
  /\ gpc = "call"
  /\ pgain' = PGain(bw, zeta, k, sample_freq)
  /\ igain' = IGain(bw, zeta, k, sample_freq)
  /\ gpc' = "done"
  /\ UNCHANGED <<bw, zeta, k, sample_freq>>
  /\ UNCHANGED <<corrVars, navVars>>

(***************************************************************************)
(* Specifications: one per component; the other components stay idle.      *)
(***************************************************************************)

InitCorr == CorrInit /\ NavOff /\ GainOff

SpecCorr == InitCorr /\ [][CorrNext]_vars

InitNav == CorrOff /\ NavInit /\ GainOff

SpecNav == InitNav /\ [][NavNext]_vars

InitGains == CorrOff /\ NavOff /\ GainInit

GainNext == calc_loop_gains

SpecGains == InitGains /\ [][GainNext]_vars

(***************************************************************************)
(* Properties of track_correlate (under SpecCorr)                          *)
(***************************************************************************)

InPeriod(cp) == cp.s = 1 /\ FLess(cp, Period)

Positive(x) == x.s = 1 /\ ~IsZero(x)

\* The current call started with its code phase in [0, 1023) and a positive
\* code step.
StartedInPeriod == InPeriod(start_code_phase) /\ Positive(code_step)

\* q <= n for the double quotient q = x / y, x and y > 0, n >= 0: the exact
\* quotient is at most n, or exceeds n by so little that it rounds to n.
QuotientAtMost(x, y, n) ==
  LET top == MagAdd(Times(n, y), [s |-> 1, hi |-> 0, lo |-> HalfGap(n, y)])
  IN ~MagLess(top, x)

\* C1: for a code phase in [0, 1023) and a code step > 0, num_samples is the
\* ceiling of the quotient (1023 - code_phase) / code_step as the doubles
\* give it (num_samples - 1 < quotient <= num_samples), and the loop runs
\* exactly that many times, reading samples[0], ..., samples[num_samples-1]
\* once each, in order.
C1_OnePeriodPerCall ==
  (pc = "loop" \/ Returned) /\ StartedInPeriod =>
    /\ num_samples >= 1
    /\ QuotientAtMost(FSub(Period, start_code_phase), code_step, num_samples)
    /\ ~QuotientAtMost(FSub(Period, start_code_phase), code_step,
                       num_samples - 1)
    /\ i <= num_samples
    /\ read = [j \in 1 .. i |-> j - 1]
    /\ Returned => i = num_samples

C1_Witness ==
  /\ Returned /\ StartedInPeriod
  /\ start_code_phase = Quarters(1)
  /\ num_samples > 2
  /\ Len(read) = num_samples

AllOnesNoRotation ==
  Returned /\ replica = "ones" /\ sample_kind = "ones" /\ carr_step = 0

\* What the prompt reads of an all +1 replica sum to: +1 for each read inside
\* the replica, and the neighbouring memory for each read outside it.
PromptChips == (num_samples - oob_P) + stray_P

\* C2, as claimed: with an all +1 replica, all +1 samples and carr_step = 0,
\* the prompt in-phase sum *I_P equals *num_samples.
C2_Original == AllOnesNoRotation => I_P = num_samples

\* C2, amended: with an all +1 replica, all +1 samples and carr_step = 0,
\* *I_P is sin(carrier phase) times the prompt chips read and *Q_P is
\* cos(carrier phase) times them: at carrier phase 0, *I_P is 0 and it is
\* *Q_P that holds the sum, *num_samples when every prompt read is inside the
\* replica.
C2_Amended ==
  AllOnesNoRotation =>
    /\ I_P = Sin(start_carr_phase) * PromptChips
    /\ Q_P = Cos(start_carr_phase) * PromptChips
    /\ start_carr_phase = 0 => I_P = 0
    /\ start_carr_phase = 0 /\ oob_P = 0 => Q_P = num_samples

C2_Witness ==
  /\ AllOnesNoRotation
  /\ start_carr_phase = 0
  /\ num_samples > 2
  /\ oob_P = 0
  /\ I_P = 0 /\ Q_P = num_samples

\* C3, as claimed: after every call the carrier phase handed back lies in
\* [0, 2*pi), whatever the initial carrier phase and the sign of carr_step.
C3_CarrierPhaseWrapped ==
  Returned => init_carr_phase >= 0 /\ init_carr_phase < TwoPi

IndicesRead == pc = "loop" /\ i > 0 /\ StartedInPeriod

\* C9, as claimed: in a call started with code phase in [0, 1023) and a
\* positive code step, every early, prompt and late index read is at least
\* -1 and at most 1023.
C9_Original ==
  IndicesRead => \A j \in {idx.E, idx.P, idx.L} : j >= -1 /\ j <= CodeLength

\* C9, amended: every early, prompt and late index read is at least -1 and at
\* most 1024, two past the last chip.
C9_Amended ==
  IndicesRead =>
    \A j \in {idx.E, idx.P, idx.L} : j >= -1 /\ j <= CodeLength + 1

C9_Witness ==
  /\ IndicesRead
  /\ idx.L = CodeLength + 1
  /\ idx.P = CodeLength

\* C10, as claimed: over repeated calls, each starting from the code phase
\* the previous one handed back, with the first code phase in [0, 1023) and a
\* constant code step in (0, 1023], every call hands back a code phase in
\* [0, code_step), starts in [0, 1023) and processes at least one sample.
C10_CodePhaseStaysInPeriod ==
  InPeriod(first_code_phase) /\ Positive(code_step)
  /\ ~FLess(Period, code_step) =>
    /\ Returned =>
         /\ init_code_phase.s = 1 /\ FLess(init_code_phase, code_step)
         /\ num_samples >= 1
    /\ pc = "loop" => InPeriod(start_code_phase)

(***************************************************************************)
(* Properties of calc_navigation_measurement_ (under SpecNav)              *)
(***************************************************************************)

\* The sum of the times of transmission of channels 0 .. n-1, from the
\* measurements.
RECURSIVE SumTOT(_)
SumTOT(n) ==
  IF n = 0 THEN 0
  ELSE TimeOfTransmission(meas[n - 1], nav_time) + SumTOT(n - 1)

\* C4: no channel's pseudorange is written before the TOT of every channel
\* has been computed and the mean formed from all of them; a pseudorange
\* never rests on a partial mean.
C4_MeanIsBarrier ==
  \A ch \in range_done :
    /\ tot_done = Channels
    /\ mean_done
    /\ mean_TOT = SumTOT(n_channels) \div n_channels
    /\ pre_range[ch] =
         (SumTOT(n_channels) \div n_channels
          - TimeOfTransmission(meas[ch], nav_time)) * NAV_C + NOMINAL_RANGE

C4_Witness ==
  /\ npc = "range"
  /\ n_channels >= 3
  /\ range_done = {0}
  /\ TOTs[0] # TOTs[n_channels - 1]
  /\ pre_range[0] # NOMINAL_RANGE

\* C5: calc_sat_pos is invoked exactly once per channel, with that channel's
\* own TOT and ephemeris, and the clock terms of that invocation are the
\* ones applied to the channel: pseudorange = (mean_TOT - TOT)*c +
\* NOMINAL_RANGE + clock_err*c, pseudorange_rate = c*(-carrier_freq/L1) -
\* clock_rate_err*c.
C5_OwnTimeOwnClock ==
  npc = "done" =>
    /\ Len(sat_calls) = n_channels
    /\ \A ch \in Channels :
         LET call == sat_calls[ch + 1]
             tot == TimeOfTransmission(meas[ch], nav_time)
         IN /\ call.out = ch
            /\ call.ephemeris = ephemerides[ch]
            /\ call.t = tot
            /\ nav_meas[ch].TOT = tot
            /\ nav_meas[ch].sat_pos = <<"pos", ephemerides[ch], tot>>
            /\ nav_meas[ch].pseudorange =
                 (mean_TOT - tot) * NAV_C + NOMINAL_RANGE
                 + call.clock_err * NAV_C
            /\ nav_meas[ch].pseudorange_rate =
                 (NAV_C * (-meas[ch].carrier_freq)) \div GPS_L1_HZ
                 - call.clock_rate_err * NAV_C

C5_Witness ==
  /\ npc = "done"
  /\ n_channels >= 2
  /\ TOTs[0] # mean_TOT
  /\ sat_calls[1].clock_err # sat_calls[2].clock_err
  /\ sat_calls[1].clock_rate_err # sat_calls[2].clock_rate_err

\* C6: two channels with the same time of transmission get the same
\* pseudorange before the satellite clock correction.
C6_EqualTOTEqualRange ==
  \A a \in range_done, b \in range_done :
    TOTs[a] = TOTs[b] => pre_range[a] = pre_range[b]

C6_Witness ==
  /\ npc = "done"
  /\ n_channels = 2
  /\ TOTs[0] = TOTs[1]
  /\ meas[0] # meas[1]
  /\ pre_range[0] = pre_range[1]
  /\ nav_meas[0].pseudorange # nav_meas[1].pseudorange

\* The scenario of C7: two channels, TOT = 0.070000 s and 0.070001 s, nominal
\* range 0; speed of light 299792458 m/s.
C7_Scenario ==
  /\ npc = "done"
  /\ n_channels = 2
  /\ TOTs[0] = 140000 /\ TOTs[1] = 140002
  /\ NOMINAL_RANGE = 0

\* C7, as claimed: the mean is 0.0700005 s and the pseudoranges before the
\* clock correction are about -0.1497 m for the first channel and about
\* +0.1497 m for the second.
C7_Original ==
  C7_Scenario =>
    /\ mean_TOT = 140001
    /\ pre_range[0] >= -150000 /\ pre_range[0] <= -149000
    /\ pre_range[1] >= 149000 /\ pre_range[1] <= 150000

\* C7, amended: the mean is 0.0700005 s and the pseudoranges before the clock
\* correction are +149.896229 m for the first channel and -149.896229 m for
\* the second, symmetric around zero.
C7_Amended ==
  C7_Scenario =>
    /\ mean_TOT = 140001
    /\ pre_range[0] = 149896229
    /\ pre_range[1] = -149896229
    /\ pre_range[0] + pre_range[1] = 0

C7_Witness == C7_Scenario /\ pre_range[0] > 0 /\ pre_range[1] < 0

(***************************************************************************)
(* Properties of calc_loop_gains (under SpecGains)                         *)
(***************************************************************************)

GainsReturned ==
  /\ gpc = "done"
  /\ RPos(zeta) /\ k[1] # 0 /\ RPos(bw) /\ RPos(sample_freq)

\* C8, as claimed: for zeta > 0, k # 0 (negative k included), bw > 0 and
\* sample_freq > 0, both gains are positive.
C8_Original == GainsReturned => RPos(pgain) /\ RPos(igain)

\* C8, amended: for zeta > 0, bw > 0 and sample_freq > 0, both gains have the
\* sign of k: positive for k > 0, negative for k < 0.
C8_Amended ==
  GainsReturned =>
    /\ RPos(k) => RPos(pgain) /\ RPos(igain)
    /\ RNeg(k) => RNeg(pgain) /\ RNeg(igain)

C8_Witness ==
  /\ GainsReturned
  /\ RPos(k) /\ RPos(pgain) /\ RPos(igain)
  /\ zeta = <<7, 10>>

====
